---- MODULE Spec2Model ----
(***************************************************************************)
(* Verification model of the hnsd light-client kernel:                     *)
(*   - src/src/proof.c : the trie-node parser and the proof walker         *)
(*   - src/src/header.c: the header record, the compact-difficulty codec,  *)
(*                       the work accumulator and the PoW verifier         *)
(* Byte strings are sequences of 0..255.  C arrays are 0-based, sequences  *)
(* are 1-based: C index i is sequence index i + 1.                         *)
(***************************************************************************)
EXTENDS Integers, Sequences, FiniteSets, TLC

VARIABLES
  \* ---- proof walker (proof.c) ----
  root,      \* trusted root hash handed to hsk_verify_proof
  key,       \* raw 32-byte key
  nodes,     \* the caller's blob list (hsk_raw_node_t chain), longest form
  take,      \* length of the list handed to the running call (a prefix of nodes)
  results,   \* result code of the finished call on each prefix length
  pc,        \* position inside hsk_verify_proof
  c,         \* loop cursor: index of the current blob (c > take: c == NULL)
  h,         \* expected hash (uint8_t *h)
  last_hn,   \* latched HASH node
  node,      \* current node
  p,         \* nibble offset
  nc_rc,     \* return code of next_child
  data,      \* *data   output pointer
  data_len,  \* *data_len
  rc,        \* return code of hsk_verify_proof
  heapLive,  \* allocations currently live
  heapFreed, \* allocations freed
  heapBad,   \* frees of something not live (double or invalid free)
  hist,      \* history: per visited blob, the hash comparison and what followed
  walked,    \* history: the nibbles of the SHORT keys and FULL slots followed
  \* ---- compact-difficulty codec on its own (header.c) ----
  cpc,       \* "in", "decoded", "encoded", "roundtrip"
  cin,       \* the input: a bits value or a 32-byte target
  cout,      \* what the codec returned
  \* ---- header operations (header.c) ----
  hdrs,      \* the two headers
  pow,       \* hsk_header_verify_pow in progress: position, target, result
  last,      \* history: the last operation and what it returned
  nops       \* number of operations applied

wvars == <<root, key, nodes, take, results, pc, c, h, last_hn, node, p, nc_rc,
           data, data_len, rc, heapLive, heapFreed, heapBad, hist, walked>>

cvars == <<cpc, cin, cout>>

hvars == <<hdrs, pow, last, nops>>

-----------------------------------------------------------------------------
(* Program constants *)

KeySize == 32
NibbleCount == 65
FullSlots == 17
HashSize == 32

\* Node tags of proof.h (HSK_NULLNODE .. HSK_VALUENODE).
NodeTag == [NULL |-> 0, HASH |-> 1, SHORT |-> 2, FULL |-> 3, VALUE |-> 4]

(* Bounds of the model *)
MaxBlobs == 3

-----------------------------------------------------------------------------
(* BLAKE2b-256 (external collaborator): a deterministic digest of the whole *)
(* byte string, 32 bytes long.                                             *)

\* Weighted sum of d[lo..hi], by halves.
RECURSIVE Absorb(_, _, _)
Absorb(d, lo, hi) ==
  IF lo > hi THEN 0
  ELSE IF lo = hi THEN ((lo * 37 + 11) * (d[lo] + 1)) % 65521
  ELSE LET mid == (lo + hi) \div 2
       IN  (Absorb(d, lo, mid) + Absorb(d, mid + 1, hi)) % 65521

blake2b(d) ==
  LET a == (Absorb(d, 1, Len(d)) + Len(d) + 7) % 65521
  IN  [i \in 1..HashSize |-> (a * i + (a \div 256) + i) % 256]

-----------------------------------------------------------------------------
(* proof.c: nibbles, key decompression, varint, varbytes *)

to_nibbles(d) ==
  LET l == Len(d) * 2 + 1
  IN  [j \in 1..l |->
         IF j = l THEN 16
         ELSE IF j % 2 = 1 THEN d[(j + 1) \div 2] \div 16
         ELSE d[j \div 2] % 16]

decompress(d) ==
  IF Len(d) = 0 THEN <<>>
  ELSE
    LET nib == to_nibbles(d)
        pos == IF nib[1] % 2 = 1 THEN 1 ELSE 2
        len == (Len(nib) - 1) + (IF (nib[1] \div 2) % 2 = 1 THEN 1 ELSE 0)
    IN  [i \in 1..(len - pos) |-> nib[i + pos]]

\* int32_t v assembled from four little-endian bytes: b4 << 24 sets the sign.
Le32Signed(b1, b2, b3, b4) ==
  (IF b4 >= 128 THEN b4 - 256 ELSE b4) * 16777216 + b3 * 65536 + b2 * 256 + b1

\* read_varint at byte offset off of blob (data_len = Len(blob) - off).
read_varint(blob, off) ==
  LET dl == Len(blob) - off
      fail == [rc |-> "HSK_EENCODING", varlen |-> 0, value |-> 0]
  IN
  IF dl = 0 THEN fail
  ELSE
    LET b0 == blob[off + 1] IN
    IF b0 = 255 THEN fail
    ELSE IF b0 = 254 THEN
      IF dl < 5 THEN fail
      ELSE LET v == Le32Signed(blob[off + 2], blob[off + 3], blob[off + 4], blob[off + 5])
           IN  IF v <= 65535 THEN fail
               ELSE [rc |-> "HSK_SUCCESS", varlen |-> 5, value |-> v]
    ELSE IF b0 = 253 THEN
      IF dl < 3 THEN fail
      ELSE LET v == blob[off + 3] * 256 + blob[off + 2]
           IN  IF v < 253 THEN fail
               ELSE [rc |-> "HSK_SUCCESS", varlen |-> 3, value |-> v]
    ELSE [rc |-> "HSK_SUCCESS", varlen |-> 1, value |-> b0]

\* read_varbytes: out is the byte span (aliased when light, copied otherwise).
read_varbytes(blob, off) ==
  LET vi == read_varint(blob, off) IN
  IF vi.rc # "HSK_SUCCESS"
  THEN [rc |-> vi.rc, out |-> <<>>, varlen |-> 0]
  ELSE IF (Len(blob) - off) - vi.varlen < vi.value
  THEN [rc |-> "HSK_EENCODING", out |-> <<>>, varlen |-> 0]
  ELSE [rc |-> "HSK_SUCCESS",
        out |-> SubSeq(blob, off + vi.varlen + 1, off + vi.varlen + vi.value),
        varlen |-> vi.varlen]

-----------------------------------------------------------------------------
(* proof.c: nodes, allocations *)

\* The NULL pointer (hsk_node_t *)NULL.
NullNode == [type |-> "NULL"]

\* An allocation: the node struct, a SHORT key buffer or a VALUE payload of
\* the node at a tree position (blob index and child path), or the nibble
\* buffer k of hsk_verify_proof.
Obj(id, kind) == [id |-> id, kind |-> kind]

NibbleBuf == Obj(<<0>>, "nibbles")

\* hsk_free_node(node, recurse): the set of allocations it frees.
RECURSIVE hsk_free_node(_, _)
hsk_free_node(n, recurse) ==
  CASE n.type = "NULL"  -> {}
    [] n.type = "HASH"  -> {Obj(n.id, "node")}
    [] n.type = "SHORT" ->
         {Obj(n.id, "key"), Obj(n.id, "node")}
           \cup (IF recurse THEN hsk_free_node(n.value, recurse) ELSE {})
    [] n.type = "FULL"  ->
         {Obj(n.id, "node")}
           \cup (IF recurse
                 THEN UNION {hsk_free_node(n.children[j], recurse) : j \in 1..FullSlots}
                 ELSE {})
    [] n.type = "VALUE" -> {Obj(n.id, "data"), Obj(n.id, "node")}

\* hsk_parse_node on blob from byte offset off; id is the tree position of the
\* node being parsed.  Yields the return code, the node, the offset after it,
\* and the allocations made and freed on the way.
RECURSIVE hsk_parse_node(_, _, _)
RECURSIVE parse_children(_, _, _, _, _, _)

ParseFail(code, made, freed) ==
  [rc |-> code, node |-> NullNode, off |-> 0, made |-> made, freed |-> freed]

\* The FULL case's loop: child i (0-based) of the node id, children parsed so
\* far in kids, their allocations in made.
parse_children(blob, off, id, i, kids, made) ==
  IF i = FullSlots
  THEN [rc |-> "HSK_SUCCESS",
        node |-> [type |-> "FULL", id |-> id, children |-> kids],
        off |-> off, made |-> made \cup {Obj(id, "node")}, freed |-> {}]
  ELSE
    LET r == hsk_parse_node(blob, off, Append(id, i)) IN
    IF r.rc # "HSK_SUCCESS"
    THEN ParseFail(r.rc,
                   made \cup r.made \cup {Obj(id, "node")},
                   r.freed \cup {Obj(id, "node")}
                     \cup UNION {hsk_free_node(kids[j], TRUE) : j \in 1..Len(kids)})
    ELSE parse_children(blob, r.off, id, i + 1, Append(kids, r.node), made \cup r.made)

hsk_parse_node(blob, off, id) ==
  IF Len(blob) - off < 1 THEN ParseFail("HSK_EMALFORMEDNODE", {}, {})
  ELSE
    LET type == blob[off + 1]
        o1 == off + 1
        me == Obj(id, "node")
    IN
    CASE type = NodeTag.NULL ->
           [rc |-> "HSK_SUCCESS", node |-> NullNode, off |-> o1,
            made |-> {}, freed |-> {}]
      [] type = NodeTag.HASH ->
           IF Len(blob) - o1 < HashSize THEN ParseFail("HSK_EMALFORMEDNODE", {}, {})
           ELSE [rc |-> "HSK_SUCCESS",
                 node |-> [type |-> "HASH", id |-> id,
                           data |-> SubSeq(blob, o1 + 1, o1 + HashSize)],
                 off |-> o1 + HashSize, made |-> {me}, freed |-> {}]
      [] type = NodeTag.SHORT ->
           LET vb == read_varbytes(blob, o1) IN
           IF vb.rc # "HSK_SUCCESS" THEN ParseFail(vb.rc, {me}, {me})
           ELSE
             LET dec == decompress(vb.out)
                 o2 == o1 + vb.varlen + Len(vb.out)
                 ch == hsk_parse_node(blob, o2, Append(id, 0))
                 mine == {me, Obj(id, "key")}
             IN
             IF ch.rc # "HSK_SUCCESS"
             THEN ParseFail(ch.rc, mine \cup ch.made, mine \cup ch.freed)
             ELSE [rc |-> "HSK_SUCCESS",
                   node |-> [type |-> "SHORT", id |-> id, key |-> dec,
                             value |-> ch.node],
                   off |-> ch.off, made |-> mine \cup ch.made, freed |-> {}]
      [] type = NodeTag.FULL -> parse_children(blob, o1, id, 0, <<>>, {})
      [] type = NodeTag.VALUE ->
           LET vb == read_varbytes(blob, o1) IN
           IF vb.rc # "HSK_SUCCESS" THEN ParseFail(vb.rc, {me}, {me})
           ELSE [rc |-> "HSK_SUCCESS",
                 node |-> [type |-> "VALUE", id |-> id, data |-> vb.out],
                 off |-> o1 + vb.varlen + Len(vb.out),
                 made |-> {me, Obj(id, "data")}, freed |-> {}]
      [] OTHER -> ParseFail("HSK_EMALFORMEDNODE", {}, {})

-----------------------------------------------------------------------------
(* proof.c: next_child, one pass of its while loop (or its tail) *)

\* Mutation: the length test without the memcmp.
ShortMatchesLengthOnly(n, k, pp) == ~(NibbleCount - pp < Len(n.key))

\* The SHORT case's test: the key fits in what is left of k and equals it.
ShortMatches(n, k, pp) ==
  /\ ~(NibbleCount - pp < Len(n.key))
  /\ \A i \in 1..Len(n.key) : k[pp + i] = n.key[i]

\* Mutation: the loop guard taken one nibble further.
InLoopThroughEnd(pp) == NibbleCount - pp >= 0

\* The loop guard of next_child.
InLoop(pp) == NibbleCount - pp > 0

\* One pass: [node, p, rc, ret, freed, walk]: ret says next_child returned,
\* freed are the allocations released, walk the nibbles followed.
next_child(n, k, pp) ==
  IF InLoop(pp) THEN
    CASE n.type = "NULL" ->
           [node |-> NullNode, p |-> -1, rc |-> "HSK_SUCCESS", ret |-> TRUE,
            freed |-> {}, walk |-> <<>>]
      [] n.type = "SHORT" ->
           IF ~ShortMatches(n, k, pp)
           THEN [node |-> NullNode, p |-> -1, rc |-> "HSK_SUCCESS", ret |-> TRUE,
                 freed |-> hsk_free_node(n, TRUE), walk |-> <<>>]
           ELSE [node |-> n.value, p |-> pp + Len(n.key), rc |-> "HSK_SUCCESS",
                 ret |-> FALSE, freed |-> hsk_free_node(n, FALSE), walk |-> n.key]
      [] n.type = "FULL" ->
           [node |-> n.children[k[pp + 1] + 1], p |-> pp + 1, rc |-> "HSK_SUCCESS",
            ret |-> FALSE,
            freed |-> UNION {hsk_free_node(n.children[j + 1], TRUE) :
                               j \in (0..(FullSlots - 1)) \ {k[pp + 1]}}
                        \cup hsk_free_node(n, FALSE),
            walk |-> <<k[pp + 1]>>]
      [] n.type = "HASH" ->
           [node |-> n, p |-> pp, rc |-> "HSK_SUCCESS", ret |-> TRUE,
            freed |-> {}, walk |-> <<>>]
      [] n.type = "VALUE" ->
           [node |-> n, p |-> pp, rc |-> "HSK_EUNEXPECTEDNODE", ret |-> TRUE,
            freed |-> {}, walk |-> <<>>]
  ELSE
    IF n.type # "VALUE"
    THEN [node |-> NullNode, p |-> -1, rc |-> "HSK_SUCCESS", ret |-> TRUE,
          freed |-> hsk_free_node(n, TRUE), walk |-> <<>>]
    ELSE [node |-> n, p |-> -1, rc |-> "HSK_SUCCESS", ret |-> TRUE,
          freed |-> {}, walk |-> <<>>]

-----------------------------------------------------------------------------
(* Inputs: keys and serialized nodes *)

KeyA == [i \in 1..KeySize |-> 165]
KeyB == [i \in 1..KeySize |-> IF i = 1 THEN 181 ELSE 165]
Keys == {KeyA, KeyB}

PackNibbles(s) == [i \in 1..(Len(s) \div 2) |-> s[2 * i - 1] * 16 + s[2 * i]]

\* The compressed form decompress undoes: flag nibble (bit 0: odd count,
\* bit 1: terminator follows), a padding nibble when the count is even.
CompressKey(nibs, term) ==
  LET flag == IF term THEN 2 ELSE 0 IN
  IF Len(nibs) % 2 = 1
  THEN PackNibbles(<<flag + 1>> \o nibs)
  ELSE PackNibbles(<<flag, 0>> \o nibs)

EncVarbytes(b) == <<Len(b)>> \o b
EncNull == <<NodeTag.NULL>>
EncHash(hh) == <<NodeTag.HASH>> \o hh
EncShort(nibs, term, child) ==
  <<NodeTag.SHORT>> \o EncVarbytes(CompressKey(nibs, term)) \o child
EncValue(payload) == <<NodeTag.VALUE>> \o EncVarbytes(payload)

RECURSIVE Concat(_)
Concat(ss) == IF ss = <<>> THEN <<>> ELSE Head(ss) \o Concat(Tail(ss))
EncFull(children) == <<NodeTag.FULL>> \o Concat(children)

NibA == to_nibbles(KeyA)
Payload1 == <<222, 173>>
Payload2 == <<190>>

\* A three-blob inclusion proof of KeyA: FULL -> SHORT -> SHORT/VALUE.
Blob3 == EncShort(SubSeq(NibA, 4, 64), TRUE, EncValue(Payload1))
Blob2 == EncShort(SubSeq(NibA, 2, 3), FALSE, EncHash(blake2b(Blob3)))
Blob1 ==
  EncFull([j \in 1..FullSlots |->
             IF j - 1 = NibA[1] THEN EncHash(blake2b(Blob2))
             ELSE IF j - 1 = 11 THEN EncValue(Payload2)
             ELSE EncNull])
\* Blob2 with one bit flipped.
Blob2Flip == [Blob2 EXCEPT ![Len(Blob2)] = IF @ % 2 = 0 THEN @ + 1 ELSE @ - 1]
\* A one-blob inclusion proof of KeyA.
BlobSingle == EncShort(SubSeq(NibA, 1, 64), TRUE, EncValue(Payload1))
\* An unknown tag; a SHORT whose key length is the reserved varint 0xff.
BlobBadTag == <<9>>
BlobBadVarint == <<NodeTag.SHORT, 255>>

\* A one-blob proof whose FULL node sits after 64 nibbles: its slot for the
\* terminator nibble holds the value.
BlobDeep ==
  EncShort(SubSeq(NibA, 1, 64), FALSE,
           EncFull([j \in 1..FullSlots |->
                      IF j - 1 = NibA[NibbleCount] THEN EncValue(Payload1)
                      ELSE EncNull]))

Pool == <<Blob1, Blob2, Blob3, Blob2Flip, BlobSingle, BlobBadTag, BlobBadVarint,
          BlobDeep>>

Lists ==
  UNION {{[i \in 1..n |-> Pool[f[i]]] : f \in [1..n -> 1..Len(Pool)]} : n \in 0..MaxBlobs}

OtherRoot == [i \in 1..HashSize |-> 0]
RootsFor(l) == IF l = <<>> THEN {OtherRoot} ELSE {blake2b(l[1]), OtherRoot}

\* What the walker leaves alone.
others == <<cvars, hvars>>

-----------------------------------------------------------------------------
(* proof.c: hsk_verify_proof *)

NullPtr == [null |-> TRUE, bytes |-> <<>>]
Ptr(b) == [null |-> FALSE, bytes |-> b]

HasNext == c < take

Free(objs) ==
  /\ heapLive' = heapLive \ objs
  /\ heapFreed' = heapFreed \cup objs
  /\ heapBad' = heapBad \cup (objs \ heapLive)

\* Allocations made (and possibly freed again) by a call, then more frees.
Alloc(made, freed) ==
  /\ heapLive' = (heapLive \cup made) \ freed
  /\ heapFreed' = heapFreed \cup freed
  /\ heapBad' = heapBad \cup (freed \ (heapLive \cup made))

\* The walker's variables before any call, for the inputs given.
WalkerStart(k0, l0, r0) ==
  /\ key = k0
  /\ nodes = l0
  /\ root = r0
  /\ results = [n \in 0..Len(nodes) |-> "none"]
  /\ take = 0
  /\ pc = "idle"
  /\ c = 1
  /\ h = root
  /\ last_hn = NullNode
  /\ node = NullNode
  /\ p = 0
  /\ nc_rc = "HSK_SUCCESS"
  /\ data = NullPtr
  /\ data_len = 0
  /\ rc = "none"
  /\ heapLive = {}
  /\ heapFreed = {}
  /\ heapBad = {}
  /\ hist = <<>>
  /\ walked = <<>>

WalkerInit == \E k0 \in Keys : \E l0 \in Lists : \E r0 \in RootsFor(l0) :
                WalkerStart(k0, l0, r0)

\* The walker never called.
WalkerIdle == WalkerStart(KeyA, <<>>, OtherRoot)

\* The caller verifies the list and then each shorter prefix of it, longest
\* first.  Lines 494-514: outputs cleared, k = to_nibbles(key), h = root.
Pending == {n \in DOMAIN results : results[n] = "none"}

Call ==
  /\ pc = "idle"
  /\ Pending # {}
  /\ take' = CHOOSE n \in Pending : \A m \in Pending : m <= n
  /\ data' = NullPtr
  /\ data_len' = 0
  /\ heapLive' = {NibbleBuf}
  /\ heapFreed' = {}
  /\ heapBad' = {}
  /\ c' = 1
  /\ h' = root
  /\ last_hn' = NullNode
  /\ node' = NullNode
  /\ p' = 0
  /\ nc_rc' = "HSK_SUCCESS"
  /\ rc' = "none"
  /\ hist' = <<>>
  /\ walked' = <<>>
  /\ pc' = "loop"
  /\ UNCHANGED <<root, key, nodes, results>>
  /\ UNCHANGED others

\* Lines 516, 577-578: the list is exhausted.
Exhausted ==
  /\ pc = "loop"
  /\ c > take
  /\ Free(hsk_free_node(last_hn, TRUE))
  /\ rc' = "HSK_ENORESULT"
  /\ pc' = "done"
  /\ UNCHANGED <<root, key, nodes, take, results, c, h, last_hn, node, p, nc_rc,
                 data, data_len, hist, walked>>
  /\ UNCHANGED others

\* Mutation: the blob is rehashed but the comparison never rejects.
HashCheckNoReject ==
  /\ pc = "loop"
  /\ c <= take
  /\ hist' = Append(hist, [exp |-> h, got |-> blake2b(nodes[c]), parsed |-> FALSE,
                           latch |-> <<>>, end |-> "none"])
  /\ Free(hsk_free_node(last_hn, TRUE))
  /\ last_hn' = NullNode
  /\ pc' = "parse"
  /\ UNCHANGED <<root, key, nodes, take, results, c, h, node, p, nc_rc,
                 data, data_len, rc, walked>>
  /\ UNCHANGED others

\* Lines 517-533: rehash the blob and compare with the expected hash.
HashCheck ==
  /\ pc = "loop"
  /\ c <= take
  /\ LET hash == blake2b(nodes[c]) IN
     /\ hist' = Append(hist, [exp |-> h, got |-> hash, parsed |-> FALSE,
                              latch |-> <<>>, end |-> "none"])
     /\ Free(hsk_free_node(last_hn, TRUE))
     /\ IF hash # h
        THEN /\ rc' = "HSK_EHASHMISMATCH"
             /\ pc' = "done"
             /\ UNCHANGED last_hn
        ELSE /\ last_hn' = NullNode
             /\ pc' = "parse"
             /\ UNCHANGED rc
  /\ UNCHANGED <<root, key, nodes, take, results, c, h, node, p, nc_rc,
                 data, data_len, walked>>
  /\ UNCHANGED others

\* Lines 535-540: parse the blob.
Parse ==
  /\ pc = "parse"
  /\ LET r == hsk_parse_node(nodes[c], 0, <<c>>) IN
     /\ Alloc(r.made, r.freed)
     /\ hist' = [hist EXCEPT ![c].parsed = TRUE]
     /\ IF r.rc # "HSK_SUCCESS"
        THEN /\ rc' = r.rc
             /\ pc' = "done"
             /\ UNCHANGED node
        ELSE /\ node' = r.node
             /\ pc' = "next_child"
             /\ UNCHANGED rc
  /\ UNCHANGED <<root, key, nodes, take, results, c, h, last_hn, p, nc_rc,
                 data, data_len, walked>>
  /\ UNCHANGED others

\* Line 542: next_child, one pass of its loop at a time.
NextChild ==
  /\ pc = "next_child"
  /\ LET r == next_child(node, to_nibbles(key), p) IN
     /\ node' = r.node
     /\ p' = r.p
     /\ nc_rc' = r.rc
     /\ Free(r.freed)
     /\ walked' = walked \o r.walk
     /\ pc' = IF r.ret THEN "after" ELSE "next_child"
  /\ UNCHANGED <<root, key, nodes, take, results, c, h, last_hn,
                 data, data_len, rc, hist>>
  /\ UNCHANGED others

\* Mutation: a HASH node left by the last blob of the list is reported as an
\* early end instead of being latched for the loop to run out.
after_child_HashAtEnd(n, ncrc, more) ==
  IF ncrc # "HSK_SUCCESS"
  THEN [rc |-> ncrc, ret |-> TRUE, freed |-> hsk_free_node(n, TRUE),
        latch |-> FALSE, out |-> NullPtr]
  ELSE
    CASE n.type = "NULL" ->
           [rc |-> IF more THEN "HSK_EEARLYEND" ELSE "HSK_EPROOFOK", ret |-> TRUE,
            freed |-> {}, latch |-> FALSE, out |-> NullPtr]
      [] n.type = "HASH" ->
           IF more
           THEN [rc |-> "none", ret |-> FALSE, freed |-> {}, latch |-> TRUE,
                 out |-> NullPtr]
           ELSE [rc |-> "HSK_EEARLYEND", ret |-> TRUE, freed |-> hsk_free_node(n, TRUE),
                 latch |-> FALSE, out |-> NullPtr]
      [] n.type = "VALUE" ->
           IF more
           THEN [rc |-> "HSK_EEARLYEND", ret |-> TRUE, freed |-> {},
                 latch |-> FALSE, out |-> NullPtr]
           ELSE [rc |-> "HSK_EPROOFOK", ret |-> TRUE, freed |-> {Obj(n.id, "node")},
                 latch |-> FALSE, out |-> Ptr(n.data)]
      [] OTHER ->
           [rc |-> "HSK_EINVALIDNODE", ret |-> TRUE, freed |-> hsk_free_node(n, TRUE),
            latch |-> FALSE, out |-> NullPtr]

\* Lines 544-574: what hsk_verify_proof does with the node next_child left.
\* [rc, ret, freed, latch, out]: ret says the function returns, latch that the
\* node is kept as last_hn, out the payload handed to the caller.
after_child(n, ncrc, more) ==
  IF ncrc # "HSK_SUCCESS"
  THEN [rc |-> ncrc, ret |-> TRUE, freed |-> hsk_free_node(n, TRUE),
        latch |-> FALSE, out |-> NullPtr]
  ELSE
    CASE n.type = "NULL" ->
           [rc |-> IF more THEN "HSK_EEARLYEND" ELSE "HSK_EPROOFOK", ret |-> TRUE,
            freed |-> {}, latch |-> FALSE, out |-> NullPtr]
      [] n.type = "HASH" ->
           [rc |-> "none", ret |-> FALSE, freed |-> {}, latch |-> TRUE,
            out |-> NullPtr]
      [] n.type = "VALUE" ->
           IF more
           THEN [rc |-> "HSK_EEARLYEND", ret |-> TRUE, freed |-> {},
                 latch |-> FALSE, out |-> NullPtr]
           ELSE [rc |-> "HSK_EPROOFOK", ret |-> TRUE, freed |-> {Obj(n.id, "node")},
                 latch |-> FALSE, out |-> Ptr(n.data)]
      [] OTHER ->
           [rc |-> "HSK_EINVALIDNODE", ret |-> TRUE, freed |-> hsk_free_node(n, TRUE),
            latch |-> FALSE, out |-> NullPtr]

AfterChild ==
  /\ pc = "after"
  /\ LET r == after_child(node, nc_rc, HasNext) IN
     /\ Free(r.freed)
     /\ hist' = [hist EXCEPT ![c].end = node.type,
                             ![c].latch = IF r.latch THEN node.data ELSE <<>>]
     /\ IF r.ret
        THEN /\ rc' = r.rc
             /\ pc' = "done"
             /\ data' = r.out
             /\ data_len' = Len(r.out.bytes)
             /\ UNCHANGED <<c, h, last_hn>>
        ELSE /\ h' = node.data
             /\ last_hn' = node
             /\ c' = c + 1
             /\ pc' = "loop"
             /\ UNCHANGED <<rc, data, data_len>>
  /\ UNCHANGED <<root, key, nodes, take, results, node, p, nc_rc, walked>>
  /\ UNCHANGED others

\* The call has returned: the caller notes the result.
Return ==
  /\ pc = "done"
  /\ results' = [results EXCEPT ![take] = rc]
  /\ pc' = "idle"
  /\ UNCHANGED <<root, key, nodes, take, c, h, last_hn, node, p, nc_rc,
                 data, data_len, rc, heapLive, heapFreed, heapBad, hist, walked>>
  /\ UNCHANGED others

-----------------------------------------------------------------------------
(* header.c: the compact-difficulty codec *)

TargetSize == 32

\* A uint32_t as its top 8 bits and its low 24 bits: hi * 2^24 + lo.
U32(hi, lo) == [hi |-> hi, lo |-> lo]
Zeros(n) == [i \in 1..n |-> 0]
Pow256(n) == IF n = 0 THEN 1 ELSE IF n = 1 THEN 256 ELSE IF n = 2 THEN 65536 ELSE 16777216

\* (bits >> 23) & 1, bits & 0x7fffff, bits >> 24.
SignBit(bits) == (bits.lo \div 8388608) % 2
Mantissa(bits) == bits.lo % 8388608
Exponent(bits) == bits.hi

\* Lines 79-84: the shift.
TargetShift(exponent) == IF exponent <= 3 THEN 0 ELSE (exponent - 3) % 32

\* Lines 88-91: while (mantissa && i >= 0) { target[i--] = mantissa; mantissa >>= 8 }
RECURSIVE PlaceMantissa(_, _, _)
PlaceMantissa(target, mantissa, i) ==
  IF mantissa # 0 /\ i >= 0
  THEN PlaceMantissa([target EXCEPT ![i + 1] = mantissa % 256], mantissa \div 256, i - 1)
  ELSE [target |-> target, mantissa |-> mantissa]

hsk_pow_to_target(bits) ==
  IF bits = U32(0, 0) THEN [ok |-> FALSE, target |-> Zeros(TargetSize)]
  ELSE IF SignBit(bits) = 1 THEN [ok |-> FALSE, target |-> Zeros(TargetSize)]
  ELSE
    LET exponent == Exponent(bits)
        mantissa == IF exponent <= 3
                    THEN Mantissa(bits) \div Pow256(3 - exponent)
                    ELSE Mantissa(bits)
        r == PlaceMantissa(Zeros(TargetSize), mantissa,
                           (TargetSize - 1) - TargetShift(exponent))
    IN  [ok |-> r.mantissa = 0, target |-> r.target]

\* Lines 106-109: index of the first non-zero byte, 32 when there is none.
FirstNonZero(target) ==
  IF \A j \in 1..TargetSize : target[j] = 0 THEN TargetSize
  ELSE (CHOOSE j \in 1..TargetSize :
          target[j] # 0 /\ \A m \in 1..(j - 1) : target[m] = 0) - 1

\* Lines 132-135: for (; i < lim; i++) { mantissa <<= 8; mantissa |= target[i] }
RECURSIVE GatherMantissa(_, _, _, _)
GatherMantissa(target, i, lim, mantissa) ==
  IF i < lim
  THEN GatherMantissa(target, i + 1, lim, mantissa * 256 + target[i + 1])
  ELSE mantissa

\* hsk_pow_to_bits; bits0 is *bits before the call (kept on a false return).
hsk_pow_to_bits(target, bits0) ==
  LET i == FirstNonZero(target)
      exponent == TargetSize - i
  IN
  IF exponent = 0 THEN [ok |-> TRUE, bits |-> U32(0, 0)]
  ELSE
    LET mantissa ==
          IF exponent <= 3
          THEN ((IF exponent >= 3 THEN target[30] * 65536 ELSE 0)
                 + (IF exponent >= 2 THEN target[31] * 256 ELSE 0)
                 + target[32]) * Pow256(3 - exponent)
          ELSE GatherMantissa(target, i, (TargetSize - 1) - (exponent - 3), 0)
    IN  IF (mantissa \div 8388608) % 2 = 1
        THEN [ok |-> FALSE, bits |-> bits0]
        ELSE [ok |-> TRUE, bits |-> U32(exponent, mantissa)]

-----------------------------------------------------------------------------
(* bn.h (external collaborator): unsigned big integers, here big-endian byte *)
(* digits of a capacity that holds 2^256 and every intermediate value.      *)

BnSize == TargetSize + 2

bignum_from_int(v) == [i \in 1..BnSize |-> IF i = BnSize THEN v ELSE 0]
bignum_from_array(arr) == Zeros(BnSize - Len(arr)) \o arr
\* The low n bytes, most significant first.
bignum_to_array(a, n) == SubSeq(a, BnSize - n + 1, BnSize)
\* Left shift by a whole number of bytes.
bignum_lshift(a, nbits) ==
  LET by == nbits \div 8
  IN  [i \in 1..BnSize |-> IF i + by <= BnSize THEN a[i + by] ELSE 0]

\* Digits lo..hi of a + b + carry with the carry out, by halves.
RECURSIVE AddRange(_, _, _, _, _)
AddRange(a, b, lo, hi, carry) ==
  IF lo = hi
  THEN LET t == a[lo] + b[lo] + carry IN [d |-> <<t % 256>>, c |-> t \div 256]
  ELSE LET mid == (lo + hi) \div 2
           r == AddRange(a, b, mid + 1, hi, carry)
       IN  \* the low half is settled before its carry goes up
           IF r.c = 0
           THEN LET l == AddRange(a, b, lo, mid, 0)
                IN  [d |-> l.d \o r.d, c |-> l.c]
           ELSE LET l == AddRange(a, b, lo, mid, r.c)
                IN  [d |-> l.d \o r.d, c |-> l.c]

bignum_add(a, b) == AddRange(a, b, 1, BnSize, 0).d
bignum_inc(a) == bignum_add(a, bignum_from_int(1))

\* Digits lo..hi of a * q + carry (q a single digit) with the carry out.
RECURSIVE MulRange(_, _, _, _, _)
MulRange(a, q, lo, hi, carry) ==
  IF lo = hi
  THEN LET t == a[lo] * q + carry IN [d |-> <<t % 256>>, c |-> t \div 256]
  ELSE LET mid == (lo + hi) \div 2
           r == MulRange(a, q, mid + 1, hi, carry)
       IN  IF r.c = 0
           THEN LET l == MulRange(a, q, lo, mid, 0)
                IN  [d |-> l.d \o r.d, c |-> l.c]
           ELSE LET l == MulRange(a, q, lo, mid, r.c)
                IN  [d |-> l.d \o r.d, c |-> l.c]

BnMulDigit(a, q) == MulRange(a, q, 1, BnSize, 0).d

\* Digits lo..hi of a - b - borrow with the borrow out.
RECURSIVE SubRange(_, _, _, _, _)
SubRange(a, b, lo, hi, borrow) ==
  IF lo = hi
  THEN LET t == a[lo] - b[lo] - borrow
       IN  IF t < 0 THEN [d |-> <<t + 256>>, c |-> 1] ELSE [d |-> <<t>>, c |-> 0]
  ELSE LET mid == (lo + hi) \div 2
           r == SubRange(a, b, mid + 1, hi, borrow)
       IN  IF r.c = 0
           THEN LET l == SubRange(a, b, lo, mid, 0)
                IN  [d |-> l.d \o r.d, c |-> l.c]
           ELSE LET l == SubRange(a, b, lo, mid, r.c)
                IN  [d |-> l.d \o r.d, c |-> l.c]

BnSub(a, b) == SubRange(a, b, 1, BnSize, 0).d

BnLess(a, b) ==
  \E i \in 1..Len(a) : a[i] < b[i] /\ \A j \in 1..(i - 1) : a[j] = b[j]

\* The largest digit q with b * q <= cur, bit by bit.
RECURSIVE QuotDigit(_, _, _, _)
QuotDigit(cur, b, q, bit) ==
  IF bit = 0 THEN q
  ELSE IF BnLess(cur, BnMulDigit(b, q + bit))
       THEN QuotDigit(cur, b, q, bit \div 2)
       ELSE QuotDigit(cur, b, q + bit, bit \div 2)

\* Long division of digits lo..hi of a by b, from the remainder rem.
RECURSIVE DivRange(_, _, _, _, _)
DivRange(a, b, lo, hi, rem) ==
  IF lo = hi
  THEN LET cur == Tail(rem) \o <<a[lo]>>
           q == QuotDigit(cur, b, 0, 128)
       IN  [q |-> <<q>>, r |-> BnSub(cur, BnMulDigit(b, q))]
  ELSE LET mid == (lo + hi) \div 2
           l == DivRange(a, b, lo, mid, rem)
       IN  \* the high half is settled before its remainder goes down
           IF l.r = Zeros(BnSize)
           THEN LET r == DivRange(a, b, mid + 1, hi, Zeros(BnSize))
                IN  [q |-> l.q \o r.q, r |-> r.r]
           ELSE LET r == DivRange(a, b, mid + 1, hi, l.r)
                IN  [q |-> l.q \o r.q, r |-> r.r]

bignum_div(a, b) == DivRange(a, b, 1, BnSize, Zeros(BnSize)).q

-----------------------------------------------------------------------------
(* header.c: the work accumulator *)

WorkSize == 32

\* hsk_header_get_proof: (1 << 256) / (target + 1), as 32 bytes; proof0 is
\* the caller's buffer before the call (kept on a false return).
hsk_header_get_proof(bits, proof0) ==
  LET t == hsk_pow_to_target(bits) IN
  IF ~t.ok THEN [ok |-> FALSE, proof |-> proof0]
  ELSE
    LET max_bn == bignum_lshift(bignum_from_int(1), 256)
        target_bn == bignum_inc(bignum_from_array(t.target))
    IN  [ok |-> TRUE,
         proof |-> bignum_to_array(bignum_div(max_bn, target_bn), WorkSize)]

-----------------------------------------------------------------------------
(* The codec applied to inputs of its own *)

MaxExponent == 36
MantissaPool == {0, 1, 18, 13398, 1193046, 8388607, 8388608, 65535}
BitsPool == {U32(e, m) : e \in (0..MaxExponent) \cup {255}, m \in MantissaPool}

BytePatterns == {<<18>>, <<255, 255>>, <<18, 52, 86>>, <<128>>, <<1, 2, 3, 4>>}
\* The target with the bytes pat from index i0 on (cut at the end), else zero.
TargetWith(i0, pat) ==
  [j \in 1..TargetSize |->
     IF j - 1 >= i0 /\ j - i0 <= Len(pat) THEN pat[j - i0] ELSE 0]
TargetPool ==
  {Zeros(TargetSize)} \cup {TargetWith(i0, pat) : i0 \in 0..(TargetSize - 1), pat \in BytePatterns}

CodecStart(x) ==
  /\ cpc = "in"
  /\ cin = x
  /\ cout = [ok |-> FALSE]

CodecInit ==
  \E x \in {[kind |-> "bits", bits |-> b] : b \in BitsPool}
            \cup {[kind |-> "target", target |-> t] : t \in TargetPool} :
    CodecStart(x)

CodecIdle == CodecStart([kind |-> "none"])

\* What the codec on its own leaves alone.
cothers == <<wvars, hvars>>

DecodeBits ==
  /\ cpc = "in"
  /\ cin.kind = "bits"
  /\ cout' = hsk_pow_to_target(cin.bits)
  /\ cpc' = "decoded"
  /\ UNCHANGED <<cin, cothers>>

EncodeTarget ==
  /\ cpc = "in"
  /\ cin.kind = "target"
  /\ cout' = [enc |-> hsk_pow_to_bits(cin.target, U32(0, 0))]
  /\ cpc' = "encoded"
  /\ UNCHANGED <<cin, cothers>>

DecodeBack ==
  /\ cpc = "encoded"
  /\ cout.enc.ok
  /\ cout' = [enc |-> cout.enc, dec |-> hsk_pow_to_target(cout.enc.bits)]
  /\ cpc' = "roundtrip"
  /\ UNCHANGED <<cin, cothers>>


-----------------------------------------------------------------------------
(* bio.h (external collaborator): bounds-checked little-endian readers and  *)
(* writers over a byte cursor; a failed read leaves its output untouched.   *)

read_bytes(wire, off, n) ==
  IF Len(wire) - off < n
  THEN [ok |-> FALSE, v |-> <<>>, off |-> off]
  ELSE [ok |-> TRUE, v |-> SubSeq(wire, off + 1, off + n), off |-> off + n]

read_u8(wire, off) ==
  LET r == read_bytes(wire, off, 1)
  IN  IF r.ok THEN [r EXCEPT !.v = r.v[1]] ELSE r

read_u32(wire, off) ==
  LET r == read_bytes(wire, off, 4)
  IN  IF r.ok
      THEN [r EXCEPT !.v = U32(r.v[4], r.v[1] + 256 * r.v[2] + 65536 * r.v[3])]
      ELSE r

\* A 64-bit value is kept as its eight bytes, most significant first.
read_u64(wire, off) ==
  LET r == read_bytes(wire, off, 8)
  IN  IF r.ok THEN [r EXCEPT !.v = [i \in 1..8 |-> r.v[9 - i]]] ELSE r

write_u8(v) == <<v>>
write_u32(v) == <<v.lo % 256, (v.lo \div 256) % 256, v.lo \div 65536, v.hi>>
write_u64(v) == [i \in 1..8 |-> v[9 - i]]
write_bytes(b) == b

-----------------------------------------------------------------------------
(* header.c: the header record and its wire codec *)

SolWords == 42
NonceSize == 16

\* A header as hsk_header_init leaves it.
hsk_header_init ==
  [version |-> U32(0, 0), prev_block |-> Zeros(HashSize),
   merkle_root |-> Zeros(HashSize), witness_root |-> Zeros(HashSize),
   trie_root |-> Zeros(HashSize), time |-> Zeros(8), bits |-> U32(0, 0),
   nonce |-> Zeros(NonceSize), sol_size |-> 0,
   sol |-> [i \in 1..SolWords |-> U32(0, 0)],
   cache |-> FALSE, hash |-> Zeros(HashSize), height |-> 0,
   work |-> Zeros(WorkSize), next |-> NullPtr]

\* memcpy of the whole record, then copy->next = NULL.
hsk_header_clone(hdr) == [hdr EXCEPT !.next = NullPtr]

\* read_sol, portable branch: one read_u32 per word, stopping at the first
\* that fails; the words read before it are already stored.
read_sol(wire, off, sol, sol_size) ==
  LET avail == (Len(wire) - off) \div 4
      k == IF avail < sol_size THEN avail ELSE sol_size
  IN  [ok |-> k = sol_size,
       sol |-> [i \in 1..SolWords |->
                  IF i <= k THEN read_u32(wire, off + 4 * (i - 1)).v ELSE sol[i]],
       off |-> off + 4 * k]

\* write_sol: sol_size words; a word past the 42 of the array is a read
\* outside it, whose value the language leaves open (junk).
write_sol(sol, sol_size, junk) ==
  [j \in 1..(4 * sol_size) |->
     LET i == ((j - 1) \div 4) + 1
         word == IF i <= SolWords THEN sol[i] ELSE junk
     IN  write_u32(word)[((j - 1) % 4) + 1]]

encode_sol(sol, sol_size, junk) == write_sol(sol, sol_size, junk)

\* hsk_header_read: the fields in wire order; each failed read returns false
\* with the fields before it already overwritten.
hsk_header_read(wire, hdr) ==
  LET r1 == read_u32(wire, 0) IN
  IF ~r1.ok THEN [ok |-> FALSE, hdr |-> hdr] ELSE
  LET h1 == [hdr EXCEPT !.version = r1.v]
      r2 == read_bytes(wire, r1.off, 32) IN
  IF ~r2.ok THEN [ok |-> FALSE, hdr |-> h1] ELSE
  LET h2 == [h1 EXCEPT !.prev_block = r2.v]
      r3 == read_bytes(wire, r2.off, 32) IN
  IF ~r3.ok THEN [ok |-> FALSE, hdr |-> h2] ELSE
  LET h3 == [h2 EXCEPT !.merkle_root = r3.v]
      r4 == read_bytes(wire, r3.off, 32) IN
  IF ~r4.ok THEN [ok |-> FALSE, hdr |-> h3] ELSE
  LET h4 == [h3 EXCEPT !.witness_root = r4.v]
      r5 == read_bytes(wire, r4.off, 32) IN
  IF ~r5.ok THEN [ok |-> FALSE, hdr |-> h4] ELSE
  LET h5 == [h4 EXCEPT !.trie_root = r5.v]
      r6 == read_u64(wire, r5.off) IN
  IF ~r6.ok THEN [ok |-> FALSE, hdr |-> h5] ELSE
  LET h6 == [h5 EXCEPT !.time = r6.v]
      r7 == read_u32(wire, r6.off) IN
  IF ~r7.ok THEN [ok |-> FALSE, hdr |-> h6] ELSE
  LET h7 == [h6 EXCEPT !.bits = r7.v]
      r8 == read_bytes(wire, r7.off, 16) IN
  IF ~r8.ok THEN [ok |-> FALSE, hdr |-> h7] ELSE
  LET h8 == [h7 EXCEPT !.nonce = r8.v]
      r9 == read_u8(wire, r8.off) IN
  IF ~r9.ok THEN [ok |-> FALSE, hdr |-> h8] ELSE
  LET h9 == [h8 EXCEPT !.sol_size = r9.v] IN
  IF h9.sol_size > 42 THEN [ok |-> FALSE, hdr |-> h9] ELSE
  LET r10 == read_sol(wire, r9.off, h9.sol, h9.sol_size)
  IN  [ok |-> r10.ok, hdr |-> [h9 EXCEPT !.sol = r10.sol]]

hsk_header_decode(wire, hdr) == hsk_header_read(wire, hdr)

hsk_header_write_pre(hdr) ==
  write_u32(hdr.version) \o write_bytes(hdr.prev_block)
    \o write_bytes(hdr.merkle_root) \o write_bytes(hdr.witness_root)
    \o write_bytes(hdr.trie_root) \o write_u64(hdr.time)
    \o write_u32(hdr.bits) \o write_bytes(hdr.nonce)

hsk_header_write(hdr, junk) ==
  write_u32(hdr.version) \o write_bytes(hdr.prev_block)
    \o write_bytes(hdr.merkle_root) \o write_bytes(hdr.witness_root)
    \o write_bytes(hdr.trie_root) \o write_u64(hdr.time)
    \o write_u32(hdr.bits) \o write_bytes(hdr.nonce)
    \o write_u8(hdr.sol_size) \o write_sol(hdr.sol, hdr.sol_size, junk)

\* hsk_header_cache: the stored hash when the flag is set, else the hash of
\* the full serialization, stored with the flag.
hsk_header_cache(hdr, junk) ==
  IF hdr.cache THEN hdr
  ELSE [hdr EXCEPT !.hash = blake2b(hsk_header_write(hdr, junk)),
                   !.cache = TRUE]

Fill(n, b) == [i \in 1..n |-> b]
WireOf(bits4, sol_size, sol_bytes) ==
  <<1, 0, 0, 0>> \o Fill(32, 17) \o Fill(32, 34) \o Fill(32, 51)
    \o Fill(32, 68) \o <<1, 2, 3, 4, 5, 6, 7, 8>> \o bits4 \o Fill(16, 9)
    \o <<sol_size>> \o sol_bytes

WireEasy == WireOf(<<255, 255, 127, 32>>, 0, <<>>)       \* bits 0x207fffff
WireMain == WireOf(<<255, 255, 0, 29>>, 2, <<1, 0, 0, 0, 2, 0, 0, 0>>)
WireUnit == WireOf(<<0, 0, 1, 1>>, 1, <<7, 0, 0, 0>>)     \* target 1
WireZeroTarget == WireOf(<<86, 52, 0, 1>>, 1, <<5, 0, 0, 0>>) \* 0x01003456
WireNegative == WireOf(<<0, 0, 128, 1>>, 0, <<>>)        \* sign bit set
WireSol43 == WireOf(<<255, 255, 0, 29>>, 43, Fill(172, 3))
WireShortSol == SubSeq(WireMain, 1, 165)

Wires == {WireEasy, WireMain, WireUnit, WireZeroTarget, WireNegative,
          WireSol43, WireShortSol}

\* The bits a header can hold: those of hsk_header_init and of the wires.
HeaderBits ==
  {hsk_header_init.bits} \cup {read_u32(w, 140).v : w \in {x \in Wires : Len(x) >= 144}}

Proofs == [b \in HeaderBits |-> hsk_header_get_proof(b, Zeros(WorkSize))]

\* hsk_header_get_proof for the bits values a header here can hold, each
\* divided once.
GetProof(bits, proof0) ==
  LET r == Proofs[bits]
  IN  IF r.ok THEN r ELSE [ok |-> FALSE, proof |-> proof0]

\* A variant that stores the proof of the header alone.
hsk_header_calc_work_ProofOnly(hdr, prev) ==
  LET r == GetProof(hdr.bits, hdr.work)
  IN  [ok |-> r.ok, hdr |-> [hdr EXCEPT !.work = r.proof]]

\* hsk_header_calc_work: prev is NullPtr or a header.
hsk_header_calc_work(hdr, prev) ==
  IF prev = NullPtr
  THEN LET r == GetProof(hdr.bits, hdr.work)
       IN  [ok |-> r.ok, hdr |-> [hdr EXCEPT !.work = r.proof]]
  ELSE LET prev_bn == bignum_from_array(prev.work)
           r == GetProof(hdr.bits, Zeros(WorkSize))
       IN  IF ~r.ok THEN [ok |-> FALSE, hdr |-> hdr]
           ELSE LET proof_bn == bignum_from_array(r.proof)
                    sum == bignum_add(prev_bn, proof_bn)
                IN  [ok |-> TRUE,
                     hdr |-> [hdr EXCEPT !.work = bignum_to_array(sum, WorkSize)]]

\* rcmp: a from its last byte down against b from its first byte up.
rcmp(a, b, size) ==
  LET diff == {i \in 1..size : a[size + 1 - i] # b[i]}
  IN  IF diff = {} THEN 0
      ELSE LET i == CHOOSE x \in diff : \A y \in diff : x <= y
           IN  IF a[size + 1 - i] < b[i] THEN -1 ELSE 1

-----------------------------------------------------------------------------
(* Header operations applied to two headers *)

MaxOps == 4

Headers == 1..2
JunkWords == {U32(0, 0), U32(0, 1)}
\* What a read of sol_size words can see outside the array: nothing when
\* the words all lie inside it.
JunkFor(hdr) == IF hdr.sol_size > SolWords THEN JunkWords ELSE {U32(0, 0)}
\* hsk_cuckoo_verify_header (external): 0 on a valid cycle, else its error.
CuckooCodes == {"HSK_SUCCESS", "HSK_EPROOFOFWORK"}

PowIdle == [pc |-> "idle", i |-> 0, target |-> <<>>, rc |-> "none",
            solHashed |-> FALSE, cuckooCalled |-> FALSE]

HeaderStart ==
  /\ hdrs = [i \in Headers |-> hsk_header_init]
  /\ pow = PowIdle
  /\ last = [op |-> "none"]
  /\ nops = 0

hothers == <<wvars, cvars>>

Step == pow.pc = "idle" /\ nops < MaxOps /\ nops' = nops + 1

HeaderInit ==
  /\ Step
  /\ \E i \in Headers :
       /\ hdrs' = [hdrs EXCEPT ![i] = hsk_header_init]
       /\ last' = [op |-> "init", i |-> i]
  /\ UNCHANGED <<pow, hothers>>

HeaderDecode ==
  /\ Step
  /\ \E i \in Headers, wire \in Wires :
       LET r == hsk_header_decode(wire, hdrs[i])
       IN  /\ hdrs' = [hdrs EXCEPT ![i] = r.hdr]
           /\ last' = [op |-> "decode", i |-> i, ok |-> r.ok, wire |-> wire]
  /\ UNCHANGED <<pow, hothers>>

HeaderCache ==
  /\ Step
  /\ \E i \in Headers :
     \E junk \in JunkFor(hdrs[i]) :
       /\ hdrs' = [hdrs EXCEPT ![i] = hsk_header_cache(hdrs[i], junk)]
       /\ last' = [op |-> "cache", i |-> i]
  /\ UNCHANGED <<pow, hothers>>

HeaderClone ==
  /\ Step
  /\ \E i \in Headers, j \in Headers :
       /\ i # j
       /\ hdrs' = [hdrs EXCEPT ![j] = hsk_header_clone(hdrs[i])]
       /\ last' = [op |-> "clone", i |-> j]
  /\ UNCHANGED <<pow, hothers>>

HeaderCalcWork ==
  /\ Step
  /\ \E i \in Headers, j \in {0} \cup Headers :
       /\ i # j
       /\ LET prev == IF j = 0 THEN NullPtr ELSE hdrs[j]
              r == hsk_header_calc_work(hdrs[i], prev)
          IN  /\ hdrs' = [hdrs EXCEPT ![i] = r.hdr]
              /\ last' = [op |-> "calc_work", i |-> i, prev |-> j, ok |-> r.ok,
                          before |-> hdrs[i].work,
                          prev_work |-> IF j = 0 THEN Zeros(WorkSize)
                                        ELSE hdrs[j].work]
  /\ UNCHANGED <<pow, hothers>>

\* hsk_header_verify_pow, up to the decoding of the target.
VerifyPow ==
  /\ Step
  /\ \E i \in Headers :
       LET t == hsk_pow_to_target(hdrs[i].bits)
       IN  pow' = IF ~t.ok
                  THEN [PowIdle EXCEPT !.pc = "done", !.i = i,
                                       !.rc = "HSK_NEGTARGET"]
                  ELSE [PowIdle EXCEPT !.pc = "target", !.i = i,
                                       !.target = t.target]
  /\ last' = [op |-> "verify_pow"]
  /\ UNCHANGED <<hdrs, hothers>>

\* ... the solution is serialized and hashed, the hash compared.
HashSol ==
  /\ pow.pc = "target"
  /\ \E junk \in JunkFor(hdrs[pow.i]) :
       LET hdr == hdrs[pow.i]
           hash == blake2b(encode_sol(hdr.sol, hdr.sol_size, junk))
       IN  pow' = IF rcmp(hash, pow.target, 32) > 0
                  THEN [pow EXCEPT !.pc = "done", !.rc = "HSK_HIGHHASH",
                                   !.solHashed = TRUE]
                  ELSE [pow EXCEPT !.pc = "cuckoo", !.solHashed = TRUE]
  /\ UNCHANGED <<hdrs, last, nops, hothers>>

\* ... and the cycle verifier's code is the result.
CuckooVerify ==
  /\ pow.pc = "cuckoo"
  /\ \E code \in CuckooCodes :
       pow' = [pow EXCEPT !.pc = "done", !.rc = code, !.cuckooCalled = TRUE]
  /\ UNCHANGED <<hdrs, last, nops, hothers>>

VerifyReturn ==
  /\ pow.pc = "done"
  /\ pow' = PowIdle
  /\ UNCHANGED <<hdrs, last, nops, hothers>>

-----------------------------------------------------------------------------
(* Specifications *)

vars == <<wvars, cvars, hvars>>

\* The proof walker.
Init == WalkerInit /\ CodecIdle /\ HeaderStart
Next == Call \/ Exhausted \/ HashCheck \/ Parse \/ NextChild \/ AfterChild \/ Return
Spec == Init /\ [][Next]_vars

\* The compact-difficulty codec.
InitPow == WalkerIdle /\ CodecInit /\ HeaderStart
NextPow == DecodeBits \/ EncodeTarget \/ DecodeBack
SpecPow == InitPow /\ [][NextPow]_vars

\* The header record.
InitHeader == WalkerIdle /\ CodecIdle /\ HeaderStart
NextHeader ==
  HeaderInit \/ HeaderDecode \/ HeaderCache \/ HeaderClone \/ HeaderCalcWork
    \/ VerifyPow \/ HashSol \/ CuckooVerify \/ VerifyReturn
SpecHeader == InitHeader /\ [][NextHeader]_vars

-----------------------------------------------------------------------------
(* Claims about the proof walker *)

Returned == pc \in {"done", "idle"} /\ rc # "none"

\* C1: every blob is rehashed and compared with the expected hash (the root
\* for the first blob, the hash of the HASH node latched by the previous blob
\* afterwards) before it is parsed; a blob whose hash differs ends the call
\* with HASH_MISMATCH, unparsed; every result other than PROOF_OK leaves the
\* output pointer NULL and the output length 0.
C1_HashCheckedBeforeParse ==
  /\ \A i \in 1..Len(hist) :
       /\ hist[i].got = blake2b(nodes[i])
       /\ hist[i].exp = (IF i = 1 THEN root ELSE hist[i - 1].latch)
       /\ hist[i].parsed => hist[i].got = hist[i].exp
       /\ hist[i].got # hist[i].exp =>
            /\ i = Len(hist)
            /\ Returned
            /\ rc = "HSK_EHASHMISMATCH"
  /\ (Returned /\ rc # "HSK_EPROOFOK") => (data = NullPtr /\ data_len = 0)

\* A three-blob list whose middle blob fails the comparison: the first blob
\* was parsed, the second was not, nothing is emitted.
C1_Witness ==
  /\ pc = "done"
  /\ take = 3
  /\ Len(hist) = 2
  /\ hist[1].parsed
  /\ ~hist[2].parsed
  /\ hist[2].got # hist[2].exp
  /\ rc = "HSK_EHASHMISMATCH"
  /\ data = NullPtr

\* C2: the call returns PROOF_OK with a payload exactly when every blob of the
\* list matched its expected hash and the descent in the last blob ended on a
\* VALUE node with the nibbles followed (SHORT keys, FULL slots) being all 65
\* nibbles of the key; the payload is that VALUE node's; a VALUE met with key
\* nibbles left over gives UNEXPECTED_NODE and no payload.
C2_OkIffValueAfterWholeKey ==
  pc = "done" =>
    /\ (rc = "HSK_EPROOFOK" /\ ~data.null) <=>
         /\ take > 0
         /\ Len(hist) = take
         /\ \A i \in 1..take : hist[i].got = hist[i].exp
         /\ hist[take].end = "VALUE"
         /\ walked = to_nibbles(key)
    /\ (rc = "HSK_EPROOFOK" /\ ~data.null) =>
         /\ node.type = "VALUE"
         /\ data.bytes = node.data
         /\ data_len = Len(node.data)
    /\ (Len(hist) > 0 /\ hist[Len(hist)].end = "VALUE" /\ Len(walked) < NibbleCount) =>
         /\ rc = "HSK_EUNEXPECTEDNODE"
         /\ data = NullPtr

\* The three-blob inclusion proof is accepted and its payload handed out.
C2_Witness ==
  /\ pc = "done"
  /\ take = 3
  /\ rc = "HSK_EPROOFOK"
  /\ ~data.null
  /\ data.bytes = Payload1
  /\ Len(walked) = NibbleCount

\* C3: on every return path every allocation made by hsk_parse_node has been
\* freed exactly once, except the VALUE payload handed to the caller on
\* PROOF_OK.
C3_ParsedNodesFreedOnReturn ==
  pc = "done" =>
    /\ heapBad = {}
    /\ {o \in heapLive : o.kind # "nibbles"}
         \subseteq (IF rc = "HSK_EPROOFOK" /\ ~data.null
                    THEN {Obj(node.id, "data")} ELSE {})

\* C4: when a list is accepted with PROOF_OK, every strict prefix
\* of it is rejected with NO_RESULT.
C4_StrictPrefixIsNoResult ==
  \A n \in DOMAIN results : \A m \in DOMAIN results :
    (m < n /\ results[n] = "HSK_EPROOFOK" /\ results[m] # "none")
      => results[m] = "HSK_ENORESULT"

\* C4, with EARLY_END: every strict prefix of an accepted list gives EARLY_END or a
\* parse error.
C4_StrictPrefixIsEarlyEndOrParseError ==
  \A n \in DOMAIN results : \A m \in DOMAIN results :
    (m < n /\ results[n] = "HSK_EPROOFOK" /\ results[m] # "none")
      => results[m] \in {"HSK_EEARLYEND", "HSK_EMALFORMEDNODE", "HSK_EENCODING"}

\* An accepted three-blob list whose one- and two-blob prefixes have been run.
C4_Witness ==
  /\ Len(nodes) = 3
  /\ results[3] = "HSK_EPROOFOK"
  /\ results[2] = "HSK_ENORESULT"
  /\ results[1] = "HSK_ENORESULT"

\* A pass of next_child's loop is about to inspect the node.
Inspecting == pc = "next_child" /\ InLoop(p)

\* C11: every time a pass of next_child's loop inspects a node, 0 <= p <= 64,
\* so k[p] is read inside the 65 nibbles of the key and is a child index in
\* 0..16; within a call p never decreases, except to -1, and it is unchanged
\* from one blob to the next; p is -1 only where the call returns without
\* going to another blob.
C11_NibbleOffsetInKey ==
  /\ [](Inspecting =>
          /\ 0 <= p /\ p <= NibbleCount - 1
          /\ Len(to_nibbles(key)) = NibbleCount
          /\ to_nibbles(key)[p + 1] \in 0..(FullSlots - 1))
  /\ [](p = -1 =>
          /\ pc \in {"after", "done", "idle"}
          /\ pc = "after" => after_child(node, nc_rc, HasNext).ret)
  /\ [][pc # "idle" =>
          /\ p' >= p \/ p' = -1
          /\ c' # c => (p' = p /\ p >= 0)]_vars

\* A FULL node is inspected at the last nibble of the key, the terminator.
C11_Witness ==
  /\ Inspecting
  /\ node.type = "FULL"
  /\ p = NibbleCount - 1
  /\ to_nibbles(key)[p + 1] = FullSlots - 1

-----------------------------------------------------------------------------
(* Claims about the compact-difficulty codec *)

\* C9: whenever hsk_pow_to_bits(t) succeeds with b, hsk_pow_to_target(b)
\* succeeds and gives back exactly t.
C9_TargetRoundTrip ==
  cpc = "roundtrip" => (cout.dec.ok /\ cout.dec.target = cin.target)

\* C10: for bits # 0 with the sign bit clear and exponent above 3, mantissa
\* byte j (0 the least significant) goes to target index 31 - (exp - 3) - j,
\* all else zero; when a non-zero mantissa byte would fall below index 0 the
\* call is rejected.
MantissaByte(m, j) == (m \div Pow256(j)) % 256

C10_MantissaPlacedOrOverflow ==
  (/\ cpc = "decoded"
   /\ cin.bits # U32(0, 0)
   /\ SignBit(cin.bits) = 0
   /\ Exponent(cin.bits) > 3) =>
    LET low == 31 - (Exponent(cin.bits) - 3)
        falls == \E j \in 0..2 :
                   MantissaByte(Mantissa(cin.bits), j) # 0 /\ low - j < 0
    IN  IF falls THEN ~cout.ok
        ELSE /\ cout.ok
             /\ \A idx \in 0..31 :
                  cout.target[idx + 1] =
                    (IF low - idx \in 0..2
                     THEN MantissaByte(Mantissa(cin.bits), low - idx) ELSE 0)

-----------------------------------------------------------------------------
(* Claims about the header record *)

\* C5: whatever sequence of init, decode, cache, clone and calc_work is
\* applied, a header whose cache flag is set holds as its cached hash the
\* BLAKE2b-256 of its current full serialization, also after a decode into a
\* header whose hash was taken earlier.
C5_CachedHashIsCurrent ==
  \A i \in Headers :
    hdrs[i].cache =>
      \E junk \in JunkFor(hdrs[i]) :
        hdrs[i].hash = blake2b(hsk_header_write(hdrs[i], junk))

\* C6: after any sequence of decodes, accepted or rejected, sol_size is at
\* most 42; and a wire whose sol_size byte is 43 or more is rejected.
C6_SolSizeAtMost42 ==
  /\ \A i \in Headers : hdrs[i].sol_size <= SolWords
  /\ (last.op = "decode" /\ Len(last.wire) > 160 /\ last.wire[161] > SolWords)
       => ~last.ok

NonPositiveTarget(bits) ==
  LET t == hsk_pow_to_target(bits)
  IN  ~t.ok \/ t.target = Zeros(TargetSize)

\* C7: verify_pow returns NEG_TARGET for every header whose bits decode to a
\* negative or zero target, before the solution is hashed and without the
\* cycle verifier being called; HIGH_HASH and the verifier's code are
\* returned only for a positive target.
C7_NegTargetForNonPositive ==
  pow.pc = "done" =>
    /\ NonPositiveTarget(hdrs[pow.i].bits) =>
         (pow.rc = "HSK_NEGTARGET" /\ ~pow.solHashed /\ ~pow.cuckooCalled)
    /\ pow.rc # "HSK_NEGTARGET" => ~NonPositiveTarget(hdrs[pow.i].bits)

CalcWorkOnPrev == last.op = "calc_work" /\ last.prev # 0

\* prev.work + (the low 32 bytes of) the proof weight, with its carry digit.
WorkSum(prev_work, bits) ==
  AddRange(bignum_from_array(prev_work),
           bignum_from_array(Proofs[bits].proof), 1, BnSize, 0).d

\* prev.work + floor(2^256 / (target + 1)) < 2^256: a weight of 2^256 (zero
\* target) is the one whose low 32 bytes are zero.
SumFits(prev_work, bits) ==
  /\ Proofs[bits].proof # Zeros(WorkSize)
  /\ WorkSum(prev_work, bits)[BnSize - WorkSize] = 0

\* C8: when calc_work(hdr, prev) returns true, hdr.work is prev.work plus the
\* proof weight floor(2^256 / (target + 1)) modulo 2^256, and it is strictly
\* greater than prev.work exactly when that sum is below 2^256; on a false
\* return hdr.work is left unchanged.
C8_WorkIncreasesUnlessWrapped ==
  last.op = "calc_work" =>
    IF ~last.ok THEN hdrs[last.i].work = last.before
    ELSE last.prev # 0 =>
           /\ hdrs[last.i].work
                = bignum_to_array(WorkSum(last.prev_work, hdrs[last.i].bits),
                                  WorkSize)
           /\ BnLess(last.prev_work, hdrs[last.i].work)
                <=> SumFits(last.prev_work, hdrs[last.i].bits)

\* C8, unconditionally: whenever calc_work(hdr, prev) returns true, hdr.work is
\* strictly greater than prev.work; on a false return it is unchanged.
C8_WorkStrictlyIncreases ==
  last.op = "calc_work" =>
    IF ~last.ok THEN hdrs[last.i].work = last.before
    ELSE last.prev # 0 => BnLess(last.prev_work, hdrs[last.i].work)

\* calc_work returned true on a predecessor that itself carries work, and
\* the work grew.
C8_Witness ==
  /\ CalcWorkOnPrev /\ last.ok
  /\ last.prev_work # Zeros(WorkSize)
  /\ BnLess(last.prev_work, hdrs[last.i].work)

====
